---- MODULE Spec2Model ----
(***************************************************************************)
(* Business Value Assessment AI (business_granular_check.py).              *)
(*                                                                         *)
(* A Streamlit script: every user action re-runs the script from top to    *)
(* bottom against st.session_state, the Jira tracker and the LLM.  Texts   *)
(* are sequences of one-character strings, so that the regular             *)
(* expressions, strip(), lower() and capitalize() are computed character   *)
(* by character.                                                           *)
(***************************************************************************)
EXTENDS Integers, Sequences, FiniteSets, TLC

VARIABLES
    session_state,  \* st.session_state: a dict, DOMAIN = the keys present
    tracker,        \* Jira: issue key -> value of the "Business Value" field
    widgets,        \* Streamlit widget state kept between runs
    rendered,       \* the widgets the last run put on the page
    run,            \* what the last run of the script did (its trace)
    assessed,       \* history: the last assessment the LLM produced in the session
    call            \* a call of one of the script's functions, for the function specifications

vars == <<session_state, tracker, widgets, rendered, run, assessed, call>>

-----------------------------------------------------------------------------
(* Characters and Python's str methods                                     *)

\* Python's None; distinct from every text, the empty one included.
None == <<"<None>">>

UpperCase == <<"A","B","C","D","E","F","G","H","I","J","K","L","M",
               "N","O","P","Q","R","S","T","U","V","W","X","Y","Z">>
LowerCase == <<"a","b","c","d","e","f","g","h","i","j","k","l","m",
               "n","o","p","q","r","s","t","u","v","w","x","y","z">>

\* str.lower() and str.upper() on one character.
ToLower == [c \in {UpperCase[i] : i \in 1..Len(UpperCase)} |->
               LowerCase[CHOOSE i \in 1..Len(UpperCase) : UpperCase[i] = c]]
ToUpper == [c \in {LowerCase[i] : i \in 1..Len(LowerCase)} |->
               UpperCase[CHOOSE i \in 1..Len(LowerCase) : LowerCase[i] = c]]

LowerChar(c) == IF c \in DOMAIN ToLower THEN ToLower[c] ELSE c

UpperChar(c) == IF c \in DOMAIN ToUpper THEN ToUpper[c] ELSE c

lower(s) == [i \in 1..Len(s) |-> LowerChar(s[i])]

\* str.capitalize(): first character upper-cased, the rest lower-cased.
capitalize(s) == [i \in 1..Len(s) |-> IF i = 1 THEN UpperChar(s[i]) ELSE LowerChar(s[i])]

\* The characters str.strip() removes and the regex class \s matches.
IsSpace(c) == c \in {" ", "\t", "\n", "\r", "\f"}

\* s[a..b], empty when a > b.
Slice(s, a, b) == IF a > b THEN <<>> ELSE SubSeq(s, a, b)

\* str.strip()
strip(s) ==
    LET keep == {i \in 1..Len(s) : ~IsSpace(s[i])}
    IN  IF keep = {} THEN <<>>
        ELSE Slice(s, CHOOSE i \in keep : \A j \in keep : i <= j,
                      CHOOSE i \in keep : \A j \in keep : j <= i)

\* str.startswith(prefix)
startswith(s, prefix) ==
    /\ Len(prefix) <= Len(s)
    /\ \A i \in 1..Len(prefix) : s[i] = prefix[i]

\* The literal `lit` stands in s at position p (re: a literal, case-sensitive).
LitAt(s, p, lit) ==
    /\ p >= 1
    /\ p + Len(lit) - 1 <= Len(s)
    /\ \A i \in 1..Len(lit) : s[p + i - 1] = lit[i]

\* The same under re.IGNORECASE.
LitAtI(s, p, lit) ==
    /\ p >= 1
    /\ p + Len(lit) - 1 <= Len(s)
    /\ \A i \in 1..Len(lit) : LowerChar(s[p + i - 1]) = LowerChar(lit[i])

\* The position after the longest run of \s starting at p (re: greedy \s*).
SkipSpaces(s, p) ==
    LET stops == {q \in p..Len(s) : ~IsSpace(s[q])}
    IN  IF stops = {} THEN Len(s) + 1
        ELSE CHOOSE q \in stops : \A r \in stops : q <= r

\* The position of the first "\n" at or after p, Len(s)+1 when there is none:
\* where a run of `.` (no DOTALL) starting at p must end.
LineEnd(s, p) ==
    LET nls == {q \in p..Len(s) : s[q] = "\n"}
    IN  IF nls = {} THEN Len(s) + 1
        ELSE CHOOSE q \in nls : \A r \in nls : q <= r

\* str.split('\n')[0]
FirstLine(s) == Slice(s, 1, LineEnd(s, 1) - 1)

Min(S) == CHOOSE x \in S : \A y \in S : x <= y
Max(S) == CHOOSE x \in S : \A y \in S : y <= x

-----------------------------------------------------------------------------
(* extract_refined_story                                                   *)

RefinedMarker == <<"*","*","R","e","f","i","n","e","d"," ","U","s","e","r"," ",
                   "S","t","o","r","y",":","*","*">>
AsA == <<"A","s"," ","a"," ">>
SoThat == <<" ","s","o"," ","t","h","a","t"," ">>

\* Where group 1 of  \*\*Refined User Story:\*\*\s*(.+)  starts when the
\* pattern is tried with the marker at p; 0 when it does not match there.
\* \s* is greedy and gives characters back until (.+) finds a character
\* that is not "\n".
StrictGroupStart(s, p) ==
    IF ~LitAt(s, p, RefinedMarker) THEN 0
    ELSE LET a == p + Len(RefinedMarker)
             q == SkipSpaces(s, a)
             ks == {k \in a..q : k <= Len(s) /\ s[k] # "\n"}
         IN  IF ks = {} THEN 0 ELSE Max(ks)

\* Whether  (As a .+? so that .+?)(?:\n|$)  with re.IGNORECASE matches at p:
\* "As a ", one or more characters, " so that ", one or more characters, all
\* on one line.
FallbackAt(s, p) ==
    /\ LitAtI(s, p, AsA)
    /\ LET e == LineEnd(s, p)
       IN  \E t \in (p + Len(AsA) + 1)..(e - Len(SoThat) - 1) : LitAtI(s, t, SoThat)

\* extract_refined_story without the strip() of lines 125 and 127.
extract_refined_story_unstripped(description_text) ==
    LET s == description_text
        strict == {p \in 1..Len(s) : StrictGroupStart(s, p) # 0}
        fallback == {p \in 1..Len(s) : FallbackAt(s, p)}
    IN  IF s = None \/ s = <<>> THEN <<>>
        ELSE IF strict # {}
        THEN LET k == StrictGroupStart(s, Min(strict))
             IN  FirstLine(Slice(s, k, LineEnd(s, k) - 1))
        ELSE IF fallback # {}
        THEN LET p == Min(fallback)
             IN  strip(Slice(s, p, LineEnd(s, p) - 1))
        ELSE strip(s)

extract_refined_story(description_text) ==
    LET s == description_text
        strict == {p \in 1..Len(s) : StrictGroupStart(s, p) # 0}
        fallback == {p \in 1..Len(s) : FallbackAt(s, p)}
    IN  IF s = None \/ s = <<>> THEN <<>>
        ELSE IF strict # {}
        THEN LET k == StrictGroupStart(s, Min(strict))
                 story_line == strip(Slice(s, k, LineEnd(s, k) - 1))
             IN  strip(FirstLine(story_line))
        ELSE IF fallback # {}
        THEN LET p == Min(fallback)
             IN  strip(Slice(s, p, LineEnd(s, p) - 1))
        ELSE strip(s)

-----------------------------------------------------------------------------
(* extract_bv_score, bv_score_to_int                                       *)

ScoreMarker == <<"*","*","B","u","s","i","n","e","s","s"," ","V","a","l","u","e"," ",
                 "S","c","o","r","e",":","*","*">>
High == <<"H","i","g","h">>
Medium == <<"M","e","d","i","u","m">>
Low == <<"L","o","w">>

\* The alternation (High|Medium|Low), in the order the regex tries it.
ScoreWords == <<High, Medium, Low>>

\* The word of (High|Medium|Low) that matches at k under re.IGNORECASE, as
\* written in s; <<>> when none does.
ScoreWordAt(s, k) ==
    LET hits == {w \in 1..Len(ScoreWords) : LitAtI(s, k, ScoreWords[w])}
    IN  IF hits = {} THEN <<>>
        ELSE Slice(s, k, k + Len(ScoreWords[Min(hits)]) - 1)

\* Group 1 of  \*\*Business Value Score:\*\*\s*(High|Medium|Low)  with
\* re.IGNORECASE when the pattern is tried with the marker at p; <<>> when it
\* does not match there.
ScoreGroupAt(s, p) ==
    IF ~LitAtI(s, p, ScoreMarker) THEN <<>>
    ELSE LET a == p + Len(ScoreMarker)
             q == SkipSpaces(s, a)
             ks == {k \in a..q : ScoreWordAt(s, k) # <<>>}
         IN  IF ks = {} THEN <<>> ELSE ScoreWordAt(s, Max(ks))

\* extract_bv_score without the capitalize() of line 200.
extract_bv_score_as_written(bv_field_val) ==
    LET s == bv_field_val
        found == {p \in 1..Len(s) : ScoreGroupAt(s, p) # <<>>}
    IN  IF s = None \/ s = <<>> THEN None
        ELSE IF found # {} THEN ScoreGroupAt(s, Min(found))
        ELSE None

extract_bv_score(bv_field_val) ==
    LET s == bv_field_val
        found == {p \in 1..Len(s) : ScoreGroupAt(s, p) # <<>>}
    IN  IF s = None \/ s = <<>> THEN None
        ELSE IF found # {} THEN capitalize(ScoreGroupAt(s, Min(found)))
        ELSE None

\* {"High": 3, "Medium": 2, "Low": 1}.get(score, 0)
bv_score_to_int(score) ==
    IF score = High THEN 3
    ELSE IF score = Medium THEN 2
    ELSE IF score = Low THEN 1
    ELSE 0

-----------------------------------------------------------------------------
(* check_granularity                                                       *)

Yes == <<"y","e","s">>

\* What a call of the LLM chain gives: a text, or an exception.
LLMText(t) == [ok |-> TRUE, text |-> t]
LLMError == [ok |-> FALSE, text |-> <<>>]

\* What a call of a function of the script gives: a value, or the exception
\* that leaves it.
Return(v) == [raised |-> FALSE, value |-> v]
Raise == [raised |-> TRUE, value |-> FALSE]

\* chain.run is not inside a try: its exception leaves check_granularity.
check_granularity(response) ==
    IF ~response.ok THEN Raise
    ELSE Return(startswith(lower(strip(response.text)), Yes))

-----------------------------------------------------------------------------
(* The ranked list: issues_with_scores                                     *)

\* The characters of issue keys in code point order (Python compares str
\* by code point).
CodeOrder == <<"-","0","1","2","3","4","5","6","7","8","9","A","B","C">>
Ord(c) == CHOOSE i \in 1..Len(CodeOrder) : CodeOrder[i] = c

\* Python's a < b on str.
RECURSIVE StrLess(_, _)
StrLess(a, b) ==
    IF b = <<>> THEN FALSE
    ELSE IF a = <<>> THEN TRUE
    ELSE IF Head(a) # Head(b) THEN Ord(Head(a)) < Ord(Head(b))
    ELSE StrLess(Tail(a), Tail(b))

\* KeyLess with the score ascending: the minus sign of line 234 left out.
KeyLess_ascending(t, u) ==
    \/ t[2] < u[2]
    \/ t[2] = u[2] /\ StrLess(t[1].key, u[1].key)

\* The sort key of line 234, (-tup[1], tup[0].key), and Python's < on it.
KeyLess(t, u) ==
    \/ -t[2] < -u[2]
    \/ -t[2] = -u[2] /\ StrLess(t[1].key, u[1].key)

\* list.sort(key=...): a stable sort; an element goes after those whose key
\* is not greater than its own.
RECURSIVE Insert(_, _)
Insert(sorted, t) ==
    IF sorted = <<>> THEN <<t>>
    ELSE IF KeyLess(t, Head(sorted)) THEN <<t>> \o sorted
    ELSE <<Head(sorted)>> \o Insert(Tail(sorted), t)

RECURSIVE Sort(_)
Sort(list) ==
    IF list = <<>> THEN <<>>
    ELSE Insert(Sort(SubSeq(list, 1, Len(list) - 1)), list[Len(list)])

\* ScoreTuple with the test of line 229 inverted: the filter drops the
\* unassessed issues.
ScoreTuple_inverted(i, show_only_unassessed) ==
    LET bv_score == extract_bv_score(i.bv)
        is_unassessed == bv_score = None
    IN  IF show_only_unassessed /\ is_unassessed THEN <<>>
        ELSE <<i, bv_score_to_int(bv_score), bv_score>>

\* Lines 225-231: the tuple appended for issue i, <<>> when it is skipped.
ScoreTuple(i, show_only_unassessed) ==
    LET bv_score == extract_bv_score(i.bv)
        is_unassessed == bv_score = None
    IN  IF show_only_unassessed /\ ~is_unassessed THEN <<>>
        ELSE <<i, bv_score_to_int(bv_score), bv_score>>

RECURSIVE Collect(_, _)
Collect(issues, show_only_unassessed) ==
    IF issues = <<>> THEN <<>>
    ELSE LET t == ScoreTuple(Head(issues), show_only_unassessed)
             rest == Collect(Tail(issues), show_only_unassessed)
         IN  IF t = <<>> THEN rest ELSE <<t>> \o rest

\* Lines 224-234.
issues_with_scores(issues, show_only_unassessed) ==
    Sort(Collect(issues, show_only_unassessed))

-----------------------------------------------------------------------------
(* Bounded inputs                                                          *)

\* Texts are built from at most MaxFrags fragments.
MaxFrags == 3
\* An issue list holds at most MaxIssues issues.
MaxIssues == 3

RECURSIVE Concat(_)
Concat(parts) == IF parts = <<>> THEN <<>> ELSE Head(parts) \o Concat(Tail(parts))

TextsOf(frags) == {Concat(f) : f \in UNION {[1..n -> frags] : n \in 0..MaxFrags}}

\* Descriptions: the marker, white space, line breaks, story text.
StoryFrags == {RefinedMarker, <<" ">>, <<"\n">>, <<" ","d"," ">>,
               <<"A","s"," ","a"," ","u"," ","s","o"," ","t","h","a","t"," ","v">>,
               <<"\n","a","s"," ","a"," ","u"," ","s","o"," ","t","h","a","t"," ","v","\n","c">>}
\* Annotations: the marker as the prompt writes it and in another case, the
\* score words in several cases, white space, other text.
LabelFrags == {ScoreMarker, lower(ScoreMarker), <<" ">>, <<"\n">>, <<"x">>,
               High, <<"m","e","d","i","u","m">>, <<"L","O","W">>}
\* Replies of the LLM to the granularity prompt.
GateFrags == {<<"Y","e","s">>, <<"y","e","s">>, <<"N","o">>, <<" ">>, <<"\n">>, <<".">>}

\* Issue keys, and what the "Business Value" field of an issue may hold.
IssueKeys == {<<"A","-","1">>, <<"A","-","2">>, <<"A","-","1","0">>, <<"B","-","1">>}
FieldTexts == {None, <<>>,
               ScoreMarker \o <<" ">> \o High,
               <<"x","\n">> \o ScoreMarker \o <<" ","m","e","d","i","u","m","\n">>,
               lower(ScoreMarker) \o <<"L","O","W">>}

Issue(k, v) == [key |-> k, bv |-> v]

\* The lists jira.search_issues may return: issues with distinct keys.
IssueLists ==
    {l \in UNION {[1..n -> {Issue(k, v) : k \in IssueKeys, v \in FieldTexts}] : n \in 0..MaxIssues} :
        \A i, j \in 1..Len(l) : i # j => l[i].key # l[j].key}

-----------------------------------------------------------------------------
(* The functions of the script, called on their own                        *)

NoCall == [fn |-> "", arg |-> <<>>, done |-> FALSE, ret |-> <<>>]
NoSession == <<>>
NoRun == [trigger |-> "", events |-> <<>>]

\* The session part of the state, at rest.
SessionIdle ==
    /\ session_state = NoSession
    /\ tracker = <<>>
    /\ widgets = <<>>
    /\ rendered = {}
    /\ run = NoRun
    /\ assessed = <<>>

SessionUnchanged == UNCHANGED <<session_state, tracker, widgets, rendered, run, assessed>>

Pending(fn, arg) == [fn |-> fn, arg |-> arg, done |-> FALSE, ret |-> <<>>]

InitStory ==
    /\ SessionIdle
    /\ \E t \in TextsOf(StoryFrags) \cup {None} : call = Pending("extract_refined_story", t)

CallStory ==
    /\ call.fn = "extract_refined_story" /\ ~call.done
    /\ call' = [call EXCEPT !.done = TRUE, !.ret = extract_refined_story(call.arg)]
    /\ SessionUnchanged

SpecStory == InitStory /\ [][CallStory]_vars

InitLabel ==
    /\ SessionIdle
    /\ \E t \in TextsOf(LabelFrags) \cup {None} : call = Pending("extract_bv_score", t)

CallLabel ==
    /\ call.fn = "extract_bv_score" /\ ~call.done
    /\ call' = [call EXCEPT !.done = TRUE, !.ret = extract_bv_score(call.arg)]
    /\ SessionUnchanged

SpecLabel == InitLabel /\ [][CallLabel]_vars

InitGate ==
    /\ SessionIdle
    /\ \E r \in {LLMText(t) : t \in TextsOf(GateFrags)} \cup {LLMError} :
          call = Pending("check_granularity", r)

CallGate ==
    /\ call.fn = "check_granularity" /\ ~call.done
    /\ call' = [call EXCEPT !.done = TRUE, !.ret = check_granularity(call.arg)]
    /\ SessionUnchanged

SpecGate == InitGate /\ [][CallGate]_vars

InitRank ==
    /\ SessionIdle
    /\ \E l \in IssueLists, f \in BOOLEAN :
          call = Pending("issues_with_scores", [issues |-> l, show_only_unassessed |-> f])

CallRank ==
    /\ call.fn = "issues_with_scores" /\ ~call.done
    /\ call' = [call EXCEPT !.done = TRUE,
                            !.ret = issues_with_scores(call.arg.issues, call.arg.show_only_unassessed)]
    /\ SessionUnchanged

SpecRank == InitRank /\ [][CallRank]_vars

-----------------------------------------------------------------------------
(* The session: st.session_state, Jira, the page                           *)

\* dict.get(k, default), d[k] = v, del d[k] for k in ks.
Get(d, k, default) == IF k \in DOMAIN d THEN d[k] ELSE default
Set(d, k, v) == [x \in DOMAIN d \cup {k} |-> IF x = k THEN v ELSE d[x]]
Del(d, ks) == [x \in DOMAIN d \ ks |-> d[x]]

\* Python's truth value of a text or None.
Truthy(v) == v # None /\ v # <<>>

ConnKeys == {"jira_host", "jira_email", "jira_api_token", "jira_project_key"}

clear_connection_state(ss) ==
    Del(ss, ConnKeys \cup {"connected", "custom_field_id", "last_assessment",
                           "last_selected_issue_key"})

\* What the user may submit in the connection form: every field filled in,
\* or one of them left empty or blank.
FormTexts == {<<>>, <<" ">>, <<"v">>}
ConnInputs ==
    {inp \in [ConnKeys -> FormTexts] :
        Cardinality({k \in ConnKeys : inp[k] # <<"v">>}) <= 1}

\* The project: its issues in the order of their creation, their summaries
\* and descriptions.
ProjectKeys == <<<<"A","-","1">>, <<"A","-","2">>>>
Summary(k) == <<"s">> \o k
Description(k) ==
    IF k = ProjectKeys[1]
    THEN RefinedMarker \o <<"\n","A","s"," ","a"," ","u"," ","s","o"," ","t","h","a","t"," ","v","\n">>
    ELSE None

\* What the field of an issue may hold when the session starts: nothing, or
\* an assessment of an earlier session.
StoredFields == {None, lower(ScoreMarker) \o <<"L","O","W">>}

\* The id of the "Business Value" custom field.
FieldId == <<"c","f">>

\* Texts the LLM may give for the assessment prompt.
AssessHigh == <<"o","k","\n">> \o ScoreMarker \o <<" ">> \o High
AssessPlain == <<"i","n","f","o"," ","m","i","s","s","i","n","g">>
AssessOutcomes == {LLMText(AssessHigh), LLMText(AssessPlain), LLMText(<<>>), LLMError}
\* Outcomes of the granularity prompt.
GateOutcomes == {LLMText(<<"Y","e","s">>), LLMText(<<"N","o",".">>), LLMError}

\* One entry of the trace of a run.
Event(e, key, text, result) == [e |-> e, key |-> key, text |-> text, result |-> result]

\* What a run of the script leaves behind.
Result(ss, tr, w, shown, events) ==
    [ss |-> ss, tr |-> tr, widgets |-> w, rendered |-> shown, events |-> events]

\* Widgets that a run does not render lose their state.
NoWidgets == [show_only_unassessed |-> FALSE, options |-> <<>>, index |-> 0]

\* JIRA(server=..., basic_auth=...): raises when the server cannot be reached.
JIRA(server, reachable) == reachable /\ strip(server) # <<>>

\* Lines 78-101: the connection form.  The set of [ss, rendered, events] it
\* may leave.
connection_form(trigger, inp, ss) ==
    IF Get(ss, "connected", FALSE) THEN {[ss |-> ss, rendered |-> {}, events |-> <<>>]}
    ELSE IF trigger # "connect"
    THEN {[ss |-> ss, rendered |-> {"connection_form"}, events |-> <<>>]}
    ELSE IF ~(\A k \in ConnKeys : Truthy(inp[k]))
    THEN {[ss |-> ss, rendered |-> {"connection_form"},
           events |-> <<Event("connect", <<>>, <<>>, [inputs |-> inp, ok |-> FALSE])>>]}
    ELSE LET stored == [x \in DOMAIN ss \cup ConnKeys |->
                            IF x \in ConnKeys THEN strip(inp[x]) ELSE ss[x]]
         IN  {[ss |-> Set(stored, "connected", JIRA(inp["jira_host"], reachable)),
               rendered |-> {"connection_form"},
               events |-> <<Event("connect", <<>>, <<>>,
                                  [inputs |-> inp, ok |-> JIRA(inp["jira_host"], reachable)])>>] :
                 reachable \in BOOLEAN}

\* Lines 143-192: the id of the custom field, created when it is missing.
\* [id, exists]: the id found (None when the requests fail) and whether the
\* field exists afterwards.
custom_field(tr, http_ok) ==
    IF http_ok THEN [id |-> FieldId, exists |-> TRUE]
    ELSE [id |-> None, exists |-> tr.field_exists]

\* Line 216: the most issues a search returns.
maxResults == 30

\* Lines 214-219: jira.search_issues; [] when it raises (a failed request, or
\* the JQL of an empty project key).
search_issues(ss, tr, fetch_ok) ==
    IF fetch_ok /\ ss["jira_project_key"] # <<>>
    THEN [i \in 1..Min({Len(ProjectKeys), maxResults}) |->
              Issue(ProjectKeys[i], tr.bv[ProjectKeys[i]])]
    ELSE <<>>

\* Lines 236-243: the title of an entry of the ranked list.
Title(t) == <<t[1].key, t[3]>>

\* store_assessment without the test of line 308.
store_assessment_always(ss, assessment, key) ==
    Set(Set(ss, "last_assessment", assessment), "last_selected_issue_key", key)

\* Line 308: a non-empty assessment is stored with the key of its issue.
store_assessment(ss, assessment, key) ==
    IF Truthy(assessment)
    THEN Set(Set(ss, "last_assessment", assessment), "last_selected_issue_key", key)
    ELSE ss

\* update_shown without the comparison of line 316.
update_shown_any_issue(ss, key) == Truthy(Get(ss, "last_assessment", None))

\* Lines 314-317: whether the Update button is shown.
update_shown(ss, key) ==
    /\ Truthy(Get(ss, "last_assessment", None))
    /\ Get(ss, "last_selected_issue_key", None) = key

\* update_clicked without the test of the button: the write of line 321 made
\* whenever the button is shown.
update_clicked_always(trigger, shown) == shown

\* Line 318: st.button is true in the run its click started.
update_clicked(trigger, shown) == shown /\ trigger = "update"

\* proceeds without the st.stop() of line 275.
proceeds_always(is_granular) == TRUE

\* Line 270: whether the run goes on past the gate.
proceeds(is_granular) == is_granular

\* Lines 303-307: what `assessment` is after the try: the response of the one
\* chain.run, "" when it raised.
assessment_of(o) == IF o.ok THEN o.text ELSE <<>>

\* Lines 313-324: the Update button, after the form left session state ss and
\* trace events.
update_button(trigger, ss, tr, w, shown, events, key) ==
    IF ~update_shown(ss, key) THEN {Result(ss, tr, w, shown, events)}
    ELSE IF ~update_clicked(trigger, update_shown(ss, key))
    THEN {Result(ss, tr, w, shown \cup {"update_jira_btn"}, events)}
    ELSE {Result(ss,
                 IF update_ok THEN [tr EXCEPT !.bv[key] = ss["last_assessment"]] ELSE tr,
                 w, shown \cup {"update_jira_btn"},
                 Append(events, Event("write", key, ss["last_assessment"], [ok |-> update_ok]))) :
             update_ok \in BOOLEAN}

\* Lines 279-324: the assessment form and the Update button, for the
\* selected issue.
assessment_ui(trigger, ss, tr, w, shown, events, key) ==
    IF trigger = "assess"
    THEN UNION {update_button(trigger, store_assessment(ss, assessment_of(o), key), tr, w,
                              shown \cup {"assessment_form"},
                              Append(events, Event("assess", key, assessment_of(o), o)), key) :
                  o \in AssessOutcomes}
    ELSE update_button(trigger, ss, tr, w, shown \cup {"assessment_form"}, events, key)

\* Lines 257-260: the text sent to the granularity check.
story_for_granularity(key) ==
    LET refined_user_story == extract_refined_story(Description(key))
    IN  IF refined_user_story # <<>> THEN refined_user_story ELSE Summary(key)

\* Lines 266-277: the gate, with the LLM answering o.
gate(trigger, ss, tr, w, shown, events, key, is_granular) ==
    IF is_granular.raised \/ ~proceeds(is_granular.value)
    THEN {Result(ss, tr, w, shown, events)}
    ELSE assessment_ui(trigger, ss, tr, w, shown, events, key)

\* Lines 249-277: the select box over the ranked list, then the gate for the
\* selected issue.  A changed list of options is a new widget, at its first
\* option.
selectbox(trigger, ss, tr, show_only_unassessed, shown, events, ranked, index) ==
    UNION {gate(trigger, ss, tr,
                [show_only_unassessed |-> show_only_unassessed,
                 options |-> [i \in 1..Len(ranked) |-> Title(ranked[i])],
                 index |-> index],
                shown \cup {"selectbox"},
                Append(events, Event("gate", ranked[index][1].key,
                                     story_for_granularity(ranked[index][1].key),
                                     check_granularity(o))),
                ranked[index][1].key,
                check_granularity(o)) :
             o \in GateOutcomes}

\* Lines 236-247: the titles of the ranked list; the run stops when there is
\* none.
ranked_list(trigger, inp, ss, tr, w, show_only_unassessed, shown, events, ranked) ==
    IF ranked = <<>>
    THEN {Result(ss, tr, [NoWidgets EXCEPT !.show_only_unassessed = show_only_unassessed],
                 shown, events)}
    ELSE selectbox(trigger, ss, tr, show_only_unassessed, shown, events, ranked,
                   IF [i \in 1..Len(ranked) |-> Title(ranked[i])] # w.options THEN 1
                   ELSE IF trigger = "select" THEN inp
                   ELSE w.index)

\* Lines 221-234: the check box and the ranked list.
listing(trigger, inp, ss, tr, w, shown, events, issues, show_only_unassessed) ==
    ranked_list(trigger, inp, ss, tr, w, show_only_unassessed, shown \cup {"checkbox"}, events,
                issues_with_scores(issues, show_only_unassessed))

\* Lines 206-221, 326-327: the Jira client, the issues of the project, and the
\* listing when there are issues and a custom field.
fetch(trigger, inp, ss, tr, w, shown, events, id) ==
    UNION {IF ~JIRA(ss["jira_host"], reachable) THEN {Result(ss, tr, NoWidgets, shown, events)}
           ELSE IF search_issues(ss, tr, fetch_ok) # <<>> /\ id # None
           THEN listing(trigger, inp, ss, tr, w, shown, events, search_issues(ss, tr, fetch_ok),
                        IF trigger = "toggle" THEN ~w.show_only_unassessed
                        ELSE w.show_only_unassessed)
           ELSE {Result(ss, tr, NoWidgets, shown, events)} :
             reachable \in BOOLEAN, fetch_ok \in BOOLEAN}

\* Lines 136-327: the main UI of a connected session.
main_ui(trigger, inp, ss, tr, w, shown, events) ==
    UNION {fetch(trigger, inp,
                 Set(ss, "custom_field_id", custom_field(tr, http_ok).id),
                 [tr EXCEPT !.field_exists = custom_field(tr, http_ok).exists],
                 w, shown, events, custom_field(tr, http_ok).id) :
             http_ok \in BOOLEAN}

\* Lines 136, 78: after the connection form, the main UI when connected.
after_form(trigger, inp, f, tr, w, top) ==
    IF Get(f.ss, "connected", FALSE)
    THEN main_ui(trigger, inp, f.ss, tr, w, top \cup f.rendered, f.events)
    ELSE {Result(f.ss, tr, NoWidgets, top \cup f.rendered, f.events)}

\* One run of the script, top to bottom, started by `trigger` with input inp.
\* The set of results it may leave.
script(trigger, inp, ss) ==
    UNION {after_form(trigger, inp, f, tracker, widgets,
                      IF Get(ss, "connected", FALSE) THEN {"Disconnect"} ELSE {}) :
             f \in connection_form(trigger, inp, ss)}

\* The history of assessments since the session was connected, empty or of
\* one entry: the last non-empty assessment the LLM produced, and for which
\* issue.
Assessed(events) ==
    LET gen == {i \in 1..Len(events) : events[i].e = "assess" /\ events[i].text # <<>>}
    IN  IF gen = {} THEN assessed
        ELSE <<[key |-> events[Max(gen)].key, text |-> events[Max(gen)].text]>>

Runs(trigger, inp, ss) ==
    \E r \in script(trigger, inp, ss) :
        /\ session_state' = r.ss
        /\ tracker' = r.tr
        /\ widgets' = r.widgets
        /\ rendered' = r.rendered
        /\ run' = [trigger |-> trigger, events |-> r.events]
        /\ assessed' = Assessed(r.events)
        /\ UNCHANGED call

\* The page as first loaded: nothing in the session, the connection form shown.
Init ==
    /\ session_state = NoSession
    /\ \E bv \in [{ProjectKeys[i] : i \in 1..Len(ProjectKeys)} -> StoredFields] :
          tracker = [field_exists |-> FALSE, bv |-> bv]
    /\ widgets = NoWidgets
    /\ rendered = {"connection_form"}
    /\ run = [trigger |-> "load", events |-> <<>>]
    /\ assessed = <<>>
    /\ call = NoCall

\* The user submits the connection form.
Connect ==
    /\ "connection_form" \in rendered
    /\ \E inp \in ConnInputs : Runs("connect", inp, session_state)

\* Lines 70-75: the Disconnect button clears the session and reruns.
Disconnect ==
    /\ "Disconnect" \in rendered
    /\ \E r \in script("disconnect", <<>>, clear_connection_state(session_state)) :
        /\ session_state' = r.ss
        /\ tracker' = r.tr
        /\ widgets' = r.widgets
        /\ rendered' = r.rendered
        /\ run' = [trigger |-> "disconnect", events |-> r.events]
        /\ assessed' = <<>>
        /\ UNCHANGED call

\* The user ticks or unticks "Show only stories without Business Value".
ToggleFilter ==
    /\ "checkbox" \in rendered
    /\ Runs("toggle", <<>>, session_state)

\* The user picks another entry of the select box.
SelectIssue ==
    /\ "selectbox" \in rendered
    /\ \E i \in 1..Len(widgets.options) :
        /\ i # widgets.index
        /\ Runs("select", i, session_state)

\* The user submits the assessment form.
AssessBusinessValue ==
    /\ "assessment_form" \in rendered
    /\ Runs("assess", <<>>, session_state)

\* The user clicks "Update Jira with Business Value".
UpdateJira ==
    /\ "update_jira_btn" \in rendered
    /\ Runs("update", <<>>, session_state)

Next ==
    \/ Connect
    \/ Disconnect
    \/ ToggleFilter
    \/ SelectIssue
    \/ AssessBusinessValue
    \/ UpdateJira

Spec == Init /\ [][Next]_vars

-----------------------------------------------------------------------------
(* Claims about the ranked list                                            *)

RankDone == call.fn = "issues_with_scores" /\ call.done

\* The ordinal the specification gives a label.
ClaimOrdinal(label) ==
    CASE label = High -> 3
      [] label = Medium -> 2
      [] label = Low -> 1
      [] OTHER -> 0

\* The ordinal of an entry of the ranked list: that of the label its issue's
\* annotation resolves to.
EntryOrdinal(t) == ClaimOrdinal(extract_bv_score(t[1].bv))

\* C1: the ranked list is ordered by descending ordinal (High=3, Medium=2,
\* Low=1, Unknown=0), and entries of equal ordinal by ascending key: of two
\* adjacent entries the earlier one's ordinal is >= the later one's, and when
\* the ordinals are equal its key is lexicographically <= the later one's.
C1_RankedOrder ==
    RankDone =>
        \A i \in 1..(Len(call.ret) - 1) :
            LET a == call.ret[i]
                b == call.ret[i + 1]
            IN  /\ EntryOrdinal(a) >= EntryOrdinal(b)
                /\ EntryOrdinal(a) = EntryOrdinal(b) => ~StrLess(b[1].key, a[1].key)

\* A list of three was ranked into another order, with a tie broken by key
\* and a step down in ordinal.
C1_Witness ==
    /\ RankDone
    /\ Len(call.ret) = 3
    /\ [i \in 1..3 |-> call.ret[i][1]] # call.arg.issues
    /\ EntryOrdinal(call.ret[1]) = EntryOrdinal(call.ret[2])
    /\ EntryOrdinal(call.ret[2]) > EntryOrdinal(call.ret[3])
    /\ call.ret[1][1].key = <<"A","-","1","0">>
    /\ call.ret[2][1].key = <<"A","-","2">>

Range(f) == {f[i] : i \in DOMAIN f}
RankedIssues == {call.ret[i][1] : i \in 1..Len(call.ret)}

\* C2: with the filter on, the ranked list holds exactly the input issues
\* whose annotation resolves to Unknown, each once and none that was not in the
\* input; with the filter off it holds every input issue exactly once.
C2_RankedContents ==
    RankDone =>
        /\ \A i, j \in 1..Len(call.ret) : i # j => call.ret[i][1].key # call.ret[j][1].key
        /\ RankedIssues \subseteq Range(call.arg.issues)
        /\ call.arg.show_only_unassessed =>
               RankedIssues = {i \in Range(call.arg.issues) : extract_bv_score(i.bv) = None}
        /\ ~call.arg.show_only_unassessed => RankedIssues = Range(call.arg.issues)

\* The filter was on and dropped an assessed issue while keeping two others.
C2_Witness ==
    /\ RankDone
    /\ call.arg.show_only_unassessed
    /\ Len(call.arg.issues) = 3
    /\ Len(call.ret) = 2
    /\ \E i \in Range(call.arg.issues) : extract_bv_score(i.bv) = Medium

-----------------------------------------------------------------------------
(* Claim about the granularity gate                                        *)

\* C3: the gate yields granular=true exactly when the response, trimmed and
\* lower-cased, starts with "yes", and granular=false for every other outcome
\* of the call, a failed call included: it never fails.
C3_GateNeverFails ==
    (call.fn = "check_granularity" /\ call.done) =>
        /\ ~call.ret.raised
        /\ call.ret.value = (call.arg.ok /\ startswith(lower(strip(call.arg.text)), Yes))

-----------------------------------------------------------------------------
(* Claims about the text extractors                                        *)

StoryDone == call.fn = "extract_refined_story" /\ call.done

MarkerPositions(s) == {p \in 1..Len(s) : LitAt(s, p, RefinedMarker)}
\* The position after the first occurrence of the marker.
AfterMarker(s) == Min(MarkerPositions(s)) + Len(RefinedMarker)
\* The text has the marker, then some text X, then a newline.
HasMarkerLine(s) ==
    /\ s # None
    /\ MarkerPositions(s) # {}
    /\ LineEnd(s, AfterMarker(s)) <= Len(s)
\* X: the text between the marker and the next newline.
MarkerLine(s) == Slice(s, AfterMarker(s), LineEnd(s, AfterMarker(s)) - 1)

\* C4 as stated: whenever the text has the marker, text X and a newline, the
\* result is X trimmed, also when X is empty or only white space.
C4_Original ==
    (StoryDone /\ HasMarkerLine(call.arg)) => call.ret = strip(MarkerLine(call.arg))

\* C4: whenever the text has the marker, then text X holding at least one
\* character that is not white space, then a newline, the result is X trimmed,
\* whatever follows the newline (X is taken after the first marker).
C4_MarkerLine ==
    (StoryDone /\ HasMarkerLine(call.arg) /\ strip(MarkerLine(call.arg)) # <<>>) =>
        call.ret = strip(MarkerLine(call.arg))

\* X had white space on both sides and text followed the newline.
C4_Witness ==
    /\ StoryDone
    /\ HasMarkerLine(call.arg)
    /\ MarkerLine(call.arg) = <<" ","d"," ">>
    /\ LineEnd(call.arg, AfterMarker(call.arg)) < Len(call.arg)
    /\ call.ret = <<"d">>

LabelDone == call.fn = "extract_bv_score" /\ call.done

Labels == {High, Medium, Low, None}

\* In s: the marker at p (any letter case when anycase, as written
\* otherwise), then white space only, then word w in any letter case at k.
LabelMatch(s, p, k, w, anycase) ==
    /\ IF anycase THEN LitAtI(s, p, ScoreMarker) ELSE LitAt(s, p, ScoreMarker)
    /\ k >= p + Len(ScoreMarker)
    /\ \A j \in (p + Len(ScoreMarker))..(k - 1) : IsSpace(s[j])
    /\ LitAtI(s, k, w)

LabelMatches(s, anycase) ==
    IF s = None THEN {}
    ELSE LET ps == {p \in 1..Len(s) : IF anycase THEN LitAtI(s, p, ScoreMarker)
                                                   ELSE LitAt(s, p, ScoreMarker)}
         IN  {m \in ps \X (1..Len(s)) \X {High, Medium, Low} :
                 LabelMatch(s, m[1], m[2], m[3], anycase)}

\* C5 as stated: the label is one of High, Medium, Low, Unknown; it is the
\* capitalized word when the text holds the marker "**Business Value Score:**"
\* followed by high/medium/low in any letter case, and Unknown when there is
\* no such match.
C5_Original ==
    LabelDone =>
        LET ms == LabelMatches(call.arg, FALSE)
        IN  /\ call.ret \in Labels
            /\ ms # {} => \E m \in ms : call.ret = m[3]
            /\ ms = {} => call.ret = None

\* C5: the label is one of High, Medium, Low, Unknown; it is the capitalized
\* word of the first match when the text holds the marker, in any letter case,
\* followed (white space allowed between) by high/medium/low in any letter
\* case, and Unknown when there is no such match or the text is empty or
\* missing.
C5_Label ==
    LabelDone =>
        LET ms == LabelMatches(call.arg, TRUE)
        IN  /\ call.ret \in Labels
            /\ ms # {} => \E m \in ms : /\ \A n \in ms : m[1] <= n[1]
                                        /\ call.ret = m[3]
            /\ ms = {} => call.ret = None

\* A word written in lower case after the marker came back capitalized.
C5_Witness ==
    /\ LabelDone
    /\ call.arg = ScoreMarker \o <<" ">> \o <<"m","e","d","i","u","m">>
    /\ call.ret = Medium

-----------------------------------------------------------------------------
(* Claims about the session                                                *)

\* The positions of the events of kind e in a trace.
EventsOf(events, e) == {i \in 1..Len(events) : events[i].e = e}

\* The assessment the session holds and the issue it is for.
StoredAssessment(ss) ==
    <<Get(ss, "last_assessment", None), Get(ss, "last_selected_issue_key", None)>>

\* C6: an assessment request yields the response of the LLM unmodified when
\* the call succeeds and the empty string when it fails; a user action makes
\* at most one request; a failed request leaves the stored assessment and its
\* issue key as they were.
C6_AssessRequest ==
    [][LET evs == run'.events
           reqs == EventsOf(evs, "assess")
       IN  /\ Cardinality(reqs) <= 1
           /\ \A i \in reqs :
                /\ evs[i].result.ok => evs[i].text = evs[i].result.text
                /\ ~evs[i].result.ok =>
                     /\ evs[i].text = <<>>
                     /\ StoredAssessment(session_state') = StoredAssessment(session_state)]_vars

\* A request failed while the session held an earlier assessment.
C6_Witness ==
    /\ run.trigger = "assess"
    /\ \E i \in EventsOf(run.events, "assess") : ~run.events[i].result.ok
    /\ StoredAssessment(session_state) = <<AssessHigh, ProjectKeys[2]>>

\* C7: the field of an issue is written only by the run the Update button
\* started: no other action changes the tracker's fields, an update issues
\* at most one write, and the write replaces the field's value with the
\* stored assessment.
C7_WriteOnlyOnUpdate ==
    [][LET evs == run'.events
           ws == EventsOf(evs, "write")
       IN  /\ ws # {} => run'.trigger = "update"
           /\ Cardinality(ws) <= 1
           /\ ws = {} => tracker'.bv = tracker.bv
           /\ \A i \in ws :
                /\ "last_assessment" \in DOMAIN session_state
                /\ evs[i].text = session_state["last_assessment"]
                /\ tracker'.bv = IF evs[i].result.ok
                                 THEN [tracker.bv EXCEPT ![evs[i].key] = evs[i].text]
                                 ELSE tracker.bv]_vars

\* An update replaced an earlier annotation of the second issue.
C7_Witness ==
    /\ run.trigger = "update"
    /\ \E i \in EventsOf(run.events, "write") :
          /\ run.events[i].result.ok
          /\ run.events[i].key = ProjectKeys[2]
    /\ tracker.bv[ProjectKeys[2]] = AssessPlain
    /\ tracker.bv[ProjectKeys[1]] = AssessHigh

\* C8: in a run, an assessment request or a write-back comes only after the
\* gate answered granular for the selected issue in that run; when the gate
\* answers not-granular the run makes neither.
C8_GateFirst ==
    LET evs == run.events
    IN  \A i \in EventsOf(evs, "assess") \cup EventsOf(evs, "write") :
            /\ \E j \in EventsOf(evs, "gate") :
                  /\ j < i
                  /\ evs[j].key = evs[i].key
                  /\ ~evs[j].result.raised
                  /\ evs[j].result.value
            /\ \A j \in EventsOf(evs, "gate") : ~evs[j].result.raised /\ evs[j].result.value

\* The user submitted the assessment form and the gate of that run answered
\* not-granular.
C8_Witness ==
    /\ run.trigger = "assess"
    /\ \E j \in EventsOf(run.events, "gate") :
          ~run.events[j].result.raised /\ ~run.events[j].result.value
    /\ EventsOf(run.events, "assess") = {}

\* C9: the session is connected only after a submission with all four
\* parameters; while it is connected each of the four stored parameters is
\* present and non-empty; a submission with a parameter absent leaves it
\* not connected.
C9_ConnectedHasParameters ==
    /\ Get(session_state, "connected", FALSE) =>
          \A k \in ConnKeys : k \in DOMAIN session_state /\ session_state[k] # <<>>
    /\ \A i \in EventsOf(run.events, "connect") :
          (\E k \in ConnKeys : run.events[i].result.inputs[k] = <<>>) =>
              ~run.events[i].result.ok /\ ~Get(session_state, "connected", FALSE)

\* C10: every write-back for an issue writes the most recent assessment the
\* LLM produced since the session was connected, and that assessment was
\* produced for the same issue.
C10_WriteBackMatches ==
    \A i \in EventsOf(run.events, "write") :
        assessed = <<[key |-> run.events[i].key, text |-> run.events[i].text]>>

\* After an assessment of the first issue was written, one of the second
\* issue was written too.
C10_Witness ==
    /\ \E i \in EventsOf(run.events, "write") :
          /\ run.events[i].result.ok
          /\ run.events[i].key = ProjectKeys[2]
          /\ run.events[i].text = AssessHigh
    /\ tracker.bv[ProjectKeys[1]] = AssessPlain

====
